---- MODULE Spec2Model ----
(***************************************************************************)
(* Model of agua.py: the daily 08:00 -> 08:00 station report.              *)
(*                                                                         *)
(*   SpecAlign     downsample_30min on a series sorted by instant          *)
(*   SpecAlignAny  downsample_30min on any series (sorted or not)          *)
(*   SpecFetch     fetch_feed and safe_get for one feed                    *)
(*   SpecFetchLive the same, with fairness and endless full pages          *)
(*   SpecMain      main: the worker pool and the per-feed pipeline         *)
(*   SpecPool      the worker pool of main on the ten feeds of FEEDS       *)
(*   SpecWindow    the reporting window main computes from now             *)
(*   SpecTrend     trend_symbol                                            *)
(*   SpecParse     parse_raw                                               *)
(*                                                                         *)
(* Instants and durations are integers counting minutes.                   *)
(***************************************************************************)
EXTENDS Integers, Sequences, FiniteSets, TLC

\* ------------------------------------------------------------------ bounds
\* longest series handed to downsample_30min when the series is sorted
MaxLen == 3
\* longest series handed to downsample_30min when the series is in any order
MaxLenAny == 2
\* the reporting window spans at most this many 30-minute steps
MaxSteps == 1
\* the feed holds at most this many full pages of records
MaxPages == 3
\* the report is run on this many feeds (FEEDS)
NumFeeds == 3
\* a feed answers with at most this many raw records
MaxRaw == 3

\* ------------------------------------------------------------------ helpers
Abs(x) == IF x < 0 THEN -x ELSE x

Last(s) == s[Len(s)]

\* Python's None
None == <<>>

\* ================================================================== FETCH
VARIABLES
    page,      \* fetch_feed: the page to request
    out,       \* fetch_feed: the records accumulated
    batch,     \* fetch_feed: what safe_get returned for the page
    attempt,   \* safe_get: i, the counter of range(retries)
    ff_pc,     \* "loop", "get", "batch", "done", "raised"
    calls,     \* the params of every safe_get call, in order
    attempts,  \* the status of every HTTP attempt of the current safe_get call
    sleeps,    \* the sleeps of the current safe_get call, in milliseconds
    lens       \* the length of the batch of every finished safe_get call

ff_vars == <<page, out, batch, attempt, ff_pc, calls, attempts, sleeps, lens>>

\* limit = 1000
Limit == 1000

\* retries=4
Retries == 4

\* backoff=1.5, as the fraction BackoffNum / BackoffDen
BackoffNum == 3

BackoffDen == 2

\* r.status_code == 200
StatusOk == 200

\* the status that stands for no response: requests.RequestException
NoResponse == 0

\* r.status_code in (429, 500, 502, 503, 504)
IsRetryable_any(status) == status # StatusOk
IsRetryable(status) == status \in {429, 500, 502, 503, 504}

\* statuses that are neither 200 nor retryable
OtherStatuses == {404, 501}

\* the lengths of the pages the server answers with
PageLens == {0, 437, Limit - 1, Limit}

\* the records of page p when it holds n records
Body(p, n) == [j \in 1..n |-> <<p, j>>]

\* for i in range(retries)
MoreAttempts_extra(k) == k <= Retries
MoreAttempts(k) == k < Retries

RECURSIVE Pow(_, _)
Pow(b, e) == IF e = 0 THEN 1 ELSE b * Pow(b, e - 1)

\* sleep_s = backoff ** i, in milliseconds
SleepMs_linear(k) == (1000 * BackoffNum * k) \div BackoffDen
SleepMs(k) == (1000 * Pow(BackoffNum, k)) \div Pow(BackoffDen, k)

\* if len(batch) < limit: break
ShortPage(b) == Len(b) < Limit

\* out.extend(batch)
Extend_front(o, b) == b \o o
Extend(o, b) == o \o b

InitFetch ==
    /\ page = 1
    /\ out = <<>>
    /\ batch = <<>>
    /\ attempt = 0
    /\ ff_pc = "loop"
    /\ calls = <<>>
    /\ attempts = <<>>
    /\ sleeps = <<>>
    /\ lens = <<>>

\* while True: params = {...}; batch = safe_get(url, params)  (the call)
FfCall ==
    /\ ff_pc = "loop"
    /\ calls' = Append(calls, [page |-> page, limit |-> Limit])
    /\ attempt' = 0
    /\ attempts' = <<>>
    /\ sleeps' = <<>>
    /\ ff_pc' = IF MoreAttempts(0) THEN "get" ELSE "batch"
    /\ batch' = <<>>
    /\ lens' = IF MoreAttempts(0) THEN lens ELSE Append(lens, 0)
    /\ UNCHANGED <<page, out>>

\* safe_get: the attempt is answered 200; return r.json()
SgOk ==
    /\ ff_pc = "get"
    /\ \E n \in PageLens :
           /\ n = Limit => page < MaxPages
           /\ batch' = Body(page, n)
           /\ lens' = Append(lens, n)
    /\ attempts' = Append(attempts, StatusOk)
    /\ ff_pc' = "batch"
    /\ UNCHANGED <<page, out, attempt, calls, sleeps>>

\* after a failed attempt: sleep, then the next pass of the for loop, or
\* return [] when range(retries) is used up
SgAfterFailure(status) ==
    /\ attempts' = Append(attempts, status)
    /\ sleeps' = Append(sleeps, SleepMs(attempt))
    /\ attempt' = attempt + 1
    /\ IF MoreAttempts(attempt + 1)
       THEN UNCHANGED <<ff_pc, batch, lens>>
       ELSE /\ ff_pc' = "batch"
            /\ batch' = <<>>
            /\ lens' = Append(lens, 0)
    /\ UNCHANGED <<page, out, calls>>

\* safe_get: the attempt is answered with a status other than 200
SgStatus ==
    /\ ff_pc = "get"
    /\ \E status \in {429, 500, 502, 503, 504} \cup OtherStatuses :
           IF IsRetryable(status)
           THEN SgAfterFailure(status)
           ELSE /\ attempts' = Append(attempts, status)
                /\ batch' = <<>>
                /\ lens' = Append(lens, 0)
                /\ ff_pc' = "batch"
                /\ UNCHANGED <<page, out, attempt, calls, sleeps>>

\* safe_get: the attempt raises requests.RequestException
SgException ==
    /\ ff_pc = "get"
    /\ SgAfterFailure(NoResponse)

\* if not batch: break / out.extend(batch) / if len(batch) < limit: break /
\* page += 1 / return out
FfBatch ==
    /\ ff_pc = "batch"
    /\ IF batch = <<>>
       THEN /\ ff_pc' = "done"
            /\ UNCHANGED <<page, out>>
       ELSE /\ out' = Extend(out, batch)
            /\ IF ShortPage(batch)
               THEN /\ ff_pc' = "done"
                    /\ UNCHANGED page
               ELSE /\ page' = page + 1
                    /\ ff_pc' = "loop"
    /\ UNCHANGED <<batch, attempt, calls, attempts, sleeps, lens>>

\* The loop of fetch_feed has no last page. Runs that go beyond MaxPages pages
\* are followed with the page counter and the records kept as they are after
\* MaxPages pages: every further full page is one more turn of the same loop.

\* the loop is back at its top after a full page at MaxPages or beyond
Beyond == ff_pc = "loop" /\ calls # <<>> /\ Last(calls).page = page

\* while True: batch = safe_get(url, params)  (the call), beyond MaxPages
FfCallBeyond ==
    /\ Beyond
    /\ attempt' = 0
    /\ attempts' = <<>>
    /\ sleeps' = <<>>
    /\ batch' = <<>>
    /\ ff_pc' = IF MoreAttempts(0) THEN "get" ELSE "batch"
    /\ UNCHANGED <<page, out, calls, lens>>

\* safe_get: page MaxPages, or one beyond it, is answered 200 with a full page
SgOkBeyond ==
    /\ ff_pc = "get"
    /\ page = MaxPages
    /\ batch' = Body(page, Limit)
    /\ lens' = IF Len(lens) < Len(calls) THEN Append(lens, Limit) ELSE lens
    /\ attempts' = Append(attempts, StatusOk)
    /\ ff_pc' = "batch"
    /\ UNCHANGED <<page, out, attempt, calls, sleeps>>

\* out.extend(batch); len(batch) < limit is false; page += 1; back to the top
FfBatchBeyond ==
    /\ ff_pc = "batch"
    /\ page = MaxPages
    /\ batch # <<>>
    /\ ~ShortPage(batch)
    /\ ff_pc' = "loop"
    /\ UNCHANGED <<page, out, batch, attempt, calls, attempts, sleeps, lens>>

safe_get ==
    \/ SgOk
    \/ SgStatus
    \/ SgException

fetch_feed ==
    \/ FfCall
    \/ safe_get
    \/ FfBatch

\* ================================================================== ALIGN
VARIABLES
    values,       \* the series: a sequence of <<instant, value>>
    start_local,  \* window start
    end_local,    \* window end
    tol,          \* tolerance
    slots,        \* the 30-minute marks of the window
    si,           \* position of the for loop in slots (1-based)
    idx,          \* the sample pointer (0-based, as in the code)
    best,         \* None or <<slot, value>>
    best_delta,   \* distance of best to the slot
    result,       \* the output list
    passed,       \* for each slot processed, the pointer before and after it
    ds_pc         \* "call", "for", "while", "done"

ds_vars == <<values, start_local, end_local, tol, slots, si, idx, best,
             best_delta, result, passed, ds_pc>>

\* step = dt.timedelta(minutes=30)
Step == 30

\* tolerance_minutes=15
DefaultTolerance == 15

\* the tolerances the report has been run with: the default and its tuning variants
Tolerances == {10, DefaultTolerance, 30}

\* slots = []; t = start_local; while t <= end_local: slots.append(t); t += step
RECURSIVE SlotsFrom(_, _)
SlotsFrom(t, end) ==
    IF t <= end THEN <<t>> \o SlotsFrom(t + Step, end) ELSE <<>>

\* if delta > tol: break
PastSlot(delta, t) == delta > t

\* if abs(delta) <= tol and abs(delta) < best_delta
Closer_ties(delta, t, bd) == Abs(delta) <= t /\ Abs(delta) <= bd
Closer_unbounded(delta, t, bd) == bd = t \/ Abs(delta) < bd
Closer(delta, t, bd) == Abs(delta) <= t /\ Abs(delta) < bd

\* best = (slot, vv)
Point_source(slot, vt, vv) == <<vt, vv>>
Point(slot, vt, vv) == <<slot, vv>>

\* ------------------------------------------------- downsample_30min, as a value
\* the while loop of one slot from pointer k: <<pointer, best>> at its end
RECURSIVE ScanSlot(_, _, _, _, _, _)
ScanSlot(vals, slot, t, k, b, bd) ==
    IF k < Len(vals) /\ ~PastSlot(vals[k + 1][1] - slot, t)
    THEN IF Closer(vals[k + 1][1] - slot, t, bd)
         THEN ScanSlot(vals, slot, t, k + 1,
                       Point(slot, vals[k + 1][1], vals[k + 1][2]),
                       Abs(vals[k + 1][1] - slot))
         ELSE ScanSlot(vals, slot, t, k + 1, b, bd)
    ELSE <<k, b>>

\* the for loop from slot number j on, with the pointer k and the points res
\* emitted so far: the result
RECURSIVE AlignFrom(_, _, _, _, _, _)
AlignFrom(vals, sl, t, j, k, res) ==
    IF j > Len(sl)
    THEN res
    ELSE LET r == ScanSlot(vals, sl[j], t, k, None, t)
         IN IF r[2] # None
            THEN AlignFrom(vals, sl, t, j + 1, r[1], Append(res, r[2]))
            ELSE AlignFrom(vals, sl, t, j + 1, r[1], res)

Downsample(vals, start, end, t) ==
    IF vals = <<>>
    THEN <<>>
    ELSE AlignFrom(vals, SlotsFrom(start, end), t, 1, 0, <<>>)

\* ================================================================== PARSE
\* a field of a raw record: a text that parses to `is`, or one that float()
\* or fromisoformat() rejects
Text(x) == [ok |-> TRUE, is |-> x]

Bad == [ok |-> FALSE, is |-> 0]

\* a raw record of the feed: d["created_at"], d["value"]
Rec(t, v) == [value |-> v, created_at |-> t]

\* the try block of parse_raw raises for this record
Malformed_value(d) == ~d.value.ok
Malformed(d) == ~d.value.ok \/ ~d.created_at.ok

\* sorted(parsed, key=lambda x: x[0]): stable, by instant
RECURSIVE InsertSorted(_, _)
InsertSorted(srt, x) ==
    IF srt = <<>>
    THEN <<x>>
    ELSE IF Last(srt)[1] <= x[1]
         THEN Append(srt, x)
         ELSE Append(InsertSorted(SubSeq(srt, 1, Len(srt) - 1), x), Last(srt))

RECURSIVE SortByInstant(_)
SortByInstant(sq) ==
    IF sq = <<>>
    THEN <<>>
    ELSE InsertSorted(SortByInstant(SubSeq(sq, 1, Len(sq) - 1)), Last(sq))

\* for d in data or []: try: parsed.append((t, v)) except Exception: continue
RECURSIVE ParsedOf(_)
ParsedOf(data) ==
    IF data = <<>>
    THEN <<>>
    ELSE LET d == Last(data)
             before == ParsedOf(SubSeq(data, 1, Len(data) - 1))
         IN IF Malformed(d)
            THEN before
            ELSE Append(before, <<d.created_at.is, d.value.is>>)

parse_raw(data) == SortByInstant(ParsedOf(data))

\* ================================================================== STATS
RECURSIVE SumOf(_)
SumOf(arr) == IF arr = <<>> THEN 0 ELSE SumOf(SubSeq(arr, 1, Len(arr) - 1)) + Last(arr)

\* calc_stats: None for no values; the mean is sum / n (the deviation, which
\* no line of the report branches on, is left out)
calc_stats(vals) ==
    IF vals = <<>>
    THEN None
    ELSE LET arr == [k \in DOMAIN vals |-> vals[k][2]]
         IN [n |-> Len(arr),
             min |-> CHOOSE x \in {arr[k] : k \in DOMAIN arr} :
                         \A k \in DOMAIN arr : x <= arr[k],
             max |-> CHOOSE x \in {arr[k] : k \in DOMAIN arr} :
                         \A k \in DOMAIN arr : x >= arr[k],
             sum |-> SumOf(arr),
             first |-> arr[1],
             last |-> Last(arr)]

\* ------------------------------------------------- inputs of downsample_30min
IsSorted(s) == \A i \in 1..(Len(s) - 1) : s[i][1] <= s[i + 1][1]

\* today_8am = now_local.replace(hour=8, minute=0, second=0, microsecond=0)
AnchorHour == 8

\* the windows: start at 08:00, end on or between the 30-minute marks
WindowStart == AnchorHour * 60

Ends == {WindowStart + k * Step + o : k \in 0..MaxSteps, o \in {0, 10}}

\* sample instants: every 5 minutes from before the first slot's reach to
\* after the last slot's reach
Instants(end, t) == {x \in (WindowStart - t - 5)..(end + t + 5) : x % 5 = 0}

\* a series of n samples; the value of a sample names its position, so that
\* an emitted value tells which sample was taken
SeriesOf(n, end, t) ==
    {[i \in 1..n |-> <<f[i], 100 + i>>] : f \in [1..n -> Instants(end, t)]}

InitDs(maxlen) ==
    /\ start_local = WindowStart
    /\ end_local \in Ends
    /\ tol \in Tolerances
    /\ \E n \in 0..maxlen : values \in SeriesOf(n, end_local, tol)
    /\ slots = <<>>
    /\ si = 1
    /\ idx = 0
    /\ best = None
    /\ best_delta = 0
    /\ result = <<>>
    /\ passed = <<>>
    /\ ds_pc = "call"

\* if not values: return []
DsEmpty ==
    /\ ds_pc = "call"
    /\ values = <<>>
    /\ result' = <<>>
    /\ ds_pc' = "done"
    /\ UNCHANGED <<values, start_local, end_local, tol, slots, si, idx, best,
                   best_delta, passed>>

\* slots built; result, idx, n = [], 0, len(values)
DsEnter ==
    /\ ds_pc = "call"
    /\ values # <<>>
    /\ slots' = SlotsFrom(start_local, end_local)
    /\ result' = <<>>
    /\ idx' = 0
    /\ si' = 1
    /\ ds_pc' = "for"
    /\ UNCHANGED <<values, start_local, end_local, tol, best, best_delta, passed>>

\* the pointer a slot starts scanning from: idx is set once, before the for
\* loop, and each slot goes on from where the slot before it stopped
SlotPointer_rewound(p) == 0
SlotPointer(p) == p

\* for slot in slots: best, best_delta = None, tol
DsNextSlot ==
    /\ ds_pc = "for"
    /\ si <= Len(slots)
    /\ best' = None
    /\ best_delta' = tol
    /\ idx' = SlotPointer(idx)
    /\ passed' = Append(passed, <<idx', idx'>>)
    /\ ds_pc' = "while"
    /\ UNCHANGED <<values, start_local, end_local, tol, slots, si, result>>

\* one pass of the while loop that does not break
DsScan ==
    /\ ds_pc = "while"
    /\ idx < Len(values)
    /\ LET vt == values[idx + 1][1]
           vv == values[idx + 1][2]
           slot == slots[si]
           delta == vt - slot
       IN /\ ~PastSlot(delta, tol)
          /\ IF Closer(delta, tol, best_delta)
             THEN /\ best' = Point(slot, vt, vv)
                  /\ best_delta' = Abs(delta)
             ELSE UNCHANGED <<best, best_delta>>
          /\ idx' = idx + 1
          /\ passed' = [passed EXCEPT ![si] = <<passed[si][1], idx + 1>>]
    /\ UNCHANGED <<values, start_local, end_local, tol, slots, si, result, ds_pc>>

\* the while loop ends (idx = n, or break); if best: result.append(best)
DsEndSlot ==
    /\ ds_pc = "while"
    /\ IF idx < Len(values)
       THEN PastSlot(values[idx + 1][1] - slots[si], tol)
       ELSE TRUE
    /\ result' = IF best # None THEN Append(result, best) ELSE result
    /\ si' = si + 1
    /\ ds_pc' = "for"
    /\ UNCHANGED <<values, start_local, end_local, tol, slots, idx, best,
                   best_delta, passed>>

\* return result
DsReturn ==
    /\ ds_pc = "for"
    /\ si > Len(slots)
    /\ ds_pc' = "done"
    /\ UNCHANGED <<values, start_local, end_local, tol, slots, si, idx, best,
                   best_delta, result, passed>>

downsample_30min ==
    \/ DsEmpty
    \/ DsEnter
    \/ DsNextSlot
    \/ DsScan
    \/ DsEndSlot
    \/ DsReturn

\* ================================================================== MAIN
VARIABLES
    task,      \* per feed: "queued", "running", "done" (its future)
    fetched,   \* per feed: what future.result() gives
    handled,   \* the futures as_completed has yielded
    cur,       \* the feed the main thread is working on (0: none)
    m_pc,      \* main thread: "wait", "plot", "end"
    summary,   \* the summary list
    photos,    \* the feeds whose photo was posted, in order
    sent,      \* the lines of the text posted at the end
    rendered,  \* per feed: how make_plot and telegram_send_photo ended
    posts,     \* the number of telegram_send_text calls
    started    \* the feeds whose fetch_feed task a worker has begun, in order

m_vars == <<task, fetched, handled, cur, m_pc, summary, photos, sent,
            rendered, posts, started>>

\* ThreadPoolExecutor(max_workers=5)
MaxWorkers == 5

\* FEEDS holds 10 feed keys
FeedCount == 10

\* dt.timedelta(days=1), in minutes
DayMinutes == 1440

Feeds == 1..NumFeeds

\* "rele" in key_norm: estacion.rele_control, the last of FEEDS
IsRele(f) == f = NumFeeds

\* what a feed can hold for the window: nothing; one sample on the first
\* slot; a malformed record and a sample half way between two slots
FeedData ==
    {<<>>,
     <<Rec(Text(WindowStart), Text(1))>>,
     <<Rec(Bad, Text(2)), Rec(Text(WindowStart + 15), Text(3))>>}

\* what future.result() does: return fetch_feed's list, or raise what the
\* task raised
FetchOutcomes ==
    {[kind |-> "data", data |-> d] : d \in FeedData}
        \cup {[kind |-> "raise", data |-> <<>>]}

Pending == [kind |-> "pending", data |-> <<>>]

Header == [feed |-> 0, kind |-> "header"]

Line(f, k) == [feed |-> f, kind |-> k]

\* futures = {executor.submit(fetch_feed, feed, ...): feed for feed in FEEDS}
\* with the feeds fs
InitMainOn(fs) ==
    /\ task = [f \in fs |-> "queued"]
    /\ fetched = [f \in fs |-> Pending]
    /\ handled = {}
    /\ cur = 0
    /\ m_pc = "wait"
    /\ summary = <<Header, Header, Header>>
    /\ photos = <<>>
    /\ sent = <<>>
    /\ rendered = [f \in fs |-> "no"]
    /\ posts = 0
    /\ started = <<>>

InitMain == InitMainOn(Feeds)

Running == {f \in DOMAIN task : task[f] = "running"}

\* a worker thread is free: fewer than max_workers tasks are running
WorkerFree_one_more(n) == n <= MaxWorkers
WorkerFree(n) == n < MaxWorkers

\* a free worker thread takes the oldest queued task
WorkerStart(f) ==
    /\ task[f] = "queued"
    /\ \A g \in DOMAIN task : g < f => task[g] # "queued"
    /\ WorkerFree(Cardinality(Running))
    /\ task' = [task EXCEPT ![f] = "running"]
    /\ started' = Append(started, f)
    /\ UNCHANGED <<fetched, handled, cur, m_pc, summary, photos, sent,
                   rendered, posts>>

\* fetch_feed(feed, start_iso, end_iso) ends on its worker thread with one
\* of the outcomes os
WorkerFinishWith(os, f) ==
    /\ task[f] = "running"
    /\ \E o \in os : fetched' = [fetched EXCEPT ![f] = o]
    /\ task' = [task EXCEPT ![f] = "done"]
    /\ UNCHANGED <<handled, cur, m_pc, summary, photos, sent, rendered, posts,
                   started>>

WorkerFinish(f) == WorkerFinishWith(FetchOutcomes, f)

\* valores = downsample_30min(parse_raw(data), start_local, end_local, 15)
Valores(data) ==
    Downsample(parse_raw(data), WindowStart, WindowStart + DayMinutes,
               DefaultTolerance)

\* the main thread is at the top of the for loop: the body of the loop runs
\* on the main thread, from a future's result() to the end of the body
AtLoopTop_any(pc) == pc # "end"
AtLoopTop(pc) == pc = "wait"

\* for future in as_completed(futures): the body of the loop up to make_plot
MainTake(f) ==
    /\ AtLoopTop(m_pc)
    /\ task[f] = "done"
    /\ f \notin handled
    /\ handled' = handled \cup {f}
    /\ IF fetched[f].kind = "raise"
       THEN /\ summary' = Append(summary, Line(f, "error"))
            /\ UNCHANGED <<cur, m_pc>>
       ELSE IF calc_stats(Valores(fetched[f].data)) = None
            THEN /\ summary' = Append(summary, Line(f, "nodata"))
                 /\ UNCHANGED <<cur, m_pc>>
            ELSE /\ summary' =
                        Append(summary,
                               Line(f, IF IsRele(f) THEN "onoff" ELSE "stats"))
                 /\ cur' = f
                 /\ m_pc' = "plot"
    /\ UNCHANGED <<task, fetched, photos, sent, rendered, posts, started>>

\* img = make_plot(...); telegram_send_photo(img, ...); except Exception
\*   "sent":  the photo is posted
\*   "lost":  requests.post raised RequestException, caught in telegram_send_photo
\*   "raise": make_plot or open(path) raised, caught by main's except
MainPlot ==
    /\ m_pc = "plot"
    /\ \E o \in {"sent", "lost", "raise"} :
           /\ photos' = IF o = "sent" THEN Append(photos, cur) ELSE photos
           /\ summary' = IF o = "raise"
                         THEN Append(summary, Line(cur, "error"))
                         ELSE summary
           /\ rendered' = [rendered EXCEPT ![cur] = o]
    /\ cur' = 0
    /\ m_pc' = "wait"
    /\ UNCHANGED <<task, fetched, handled, sent, posts, started>>

\* for future in as_completed(futures): every future has been yielded
AsCompletedExhausted_early(h) == h # {}
AsCompletedExhausted(h) == h = Feeds

\* as_completed is exhausted: telegram_send_text("\n".join(summary))
MainSend ==
    /\ m_pc = "wait"
    /\ AsCompletedExhausted(handled)
    /\ sent' = summary
    /\ posts' = posts + 1
    /\ m_pc' = "end"
    /\ UNCHANGED <<task, fetched, handled, cur, summary, photos, rendered,
                   started>>

\* ================================================================== WINDOW
VARIABLES
    now_local,   \* main: dt.datetime.now(TZ), as [day, hour, minute, second]
    win_start,   \* main: start_local, a datetime, or None before it is set
    win_end,     \* main: end_local, a datetime, or None before it is set
    w_pc         \* "now", "planned"

w_vars == <<now_local, win_start, win_end, w_pc>>

\* a wall-clock datetime in the zone TZ
DateTime(d, h, mi, sc, us) ==
    [day |-> d, hour |-> h, minute |-> mi, second |-> sc, microsecond |-> us]

\* the whole seconds of the instant of a datetime
Seconds(t) == ((t.day * 24 + t.hour) * 60 + t.minute) * 60 + t.second

\* t > a and t >= a on datetimes
Later(t, a) ==
    \/ Seconds(t) > Seconds(a)
    \/ Seconds(t) = Seconds(a) /\ t.microsecond > a.microsecond

NotEarlier(t, a) == ~Later(a, t)

\* now_local.replace(hour=8, minute=0, second=0, microsecond=0)
Today8am(t) ==
    [t EXCEPT !.hour = AnchorHour, !.minute = 0, !.second = 0,
              !.microsecond = 0]

\* t - dt.timedelta(days=k)
MinusDays(t, k) == [t EXCEPT !.day = @ - k]

\* if now_local >= today_8am
AfterAnchor_strict(t, a) == Later(t, a)
AfterAnchor(t, a) == NotEarlier(t, a)

\* the moments main may be run at: any hour of two days, on and around the
\* full minute
Nows ==
    {DateTime(d, h, mi, sc, us) :
        d \in {3, 4}, h \in 0..23, mi \in {0, 1, 59}, sc \in {0, 1, 59},
        us \in {0, 1, 999999}}

InitWindow ==
    /\ now_local \in Nows
    /\ win_start = None
    /\ win_end = None
    /\ w_pc = "now"

\* the window is not being computed
WindowIdle ==
    /\ now_local = DateTime(3, AnchorHour, 0, 0, 0)
    /\ win_start = None
    /\ win_end = None
    /\ w_pc = "idle"

\* today_8am = ...; if now_local >= today_8am: ... else: ...
PlanWindow ==
    /\ w_pc = "now"
    /\ LET today_8am == Today8am(now_local)
       IN IF AfterAnchor(now_local, today_8am)
          THEN /\ win_start' = MinusDays(today_8am, 1)
               /\ win_end' = today_8am
          ELSE /\ win_start' = MinusDays(today_8am, 2)
               /\ win_end' = MinusDays(today_8am, 1)
    /\ w_pc' = "planned"
    /\ UNCHANGED now_local

\* ================================================================== TREND
VARIABLES
    tr_first,      \* trend_symbol: first, in hundredths, or Absent
    tr_last,       \* trend_symbol: last, in hundredths, or Absent
    tr_threshold,  \* trend_symbol: threshold, in hundredths
    tr_out,        \* what trend_symbol returned
    tr_pc          \* "call", "done"

tr_vars == <<tr_first, tr_last, tr_threshold, tr_out, tr_pc>>

\* an argument that may be None
Some(x) == [some |-> TRUE, v |-> x]

Absent == [some |-> FALSE, v |-> 0]

\* threshold=0.1, in hundredths
DefaultThreshold == 10

\* if abs(delta) < threshold: return NEUTRAL
DeadZone_closed(delta, th) == Abs(delta) <= th
DeadZone(delta, th) == Abs(delta) < th

\* trend_symbol(first, last, threshold)
trend_symbol(first, last, th) ==
    IF ~first.some \/ ~last.some
    THEN "NEUTRAL"
    ELSE IF DeadZone(last.v - first.v, th)
         THEN "NEUTRAL"
         ELSE IF last.v - first.v > 0 THEN "POSITIVE" ELSE "NEGATIVE"

\* the values handed to trend_symbol: 10.00 and values around it
TrendValues == {Some(x) : x \in {989, 990, 995, 1000, 1005, 1010, 1011}}

InitTrend ==
    /\ tr_first \in TrendValues \cup {Absent}
    /\ tr_last \in TrendValues \cup {Absent}
    /\ tr_threshold \in {0, 5, DefaultThreshold}
    /\ tr_out = "none"
    /\ tr_pc = "call"

TrendIdle ==
    /\ tr_first = Absent
    /\ tr_last = Absent
    /\ tr_threshold = DefaultThreshold
    /\ tr_out = "none"
    /\ tr_pc = "idle"

CallTrend ==
    /\ tr_pc = "call"
    /\ tr_out' = trend_symbol(tr_first, tr_last, tr_threshold)
    /\ tr_pc' = "done"
    /\ UNCHANGED <<tr_first, tr_last, tr_threshold>>

\* ================================================================== PARSE CALL
VARIABLES
    pr_data,   \* parse_raw: data, the raw records
    pr_out,    \* what parse_raw returned
    pr_pc      \* "call", "done"

pr_vars == <<pr_data, pr_out, pr_pc>>

\* the raw records of a feed: stamps and values, well formed or not
RawRecords ==
    {Rec(t, v) :
        t \in {Bad, Text(WindowStart), Text(WindowStart + 15),
               Text(WindowStart + Step)},
        v \in {Bad, Text(1), Text(2)}}

RawLists(n) == {[k \in 1..n |-> f[k]] : f \in [1..n -> RawRecords]}

InitParse ==
    /\ \E n \in 0..MaxRaw : pr_data \in RawLists(n)
    /\ pr_out = <<>>
    /\ pr_pc = "call"

ParseIdle ==
    /\ pr_data = <<>>
    /\ pr_out = <<>>
    /\ pr_pc = "idle"

CallParse ==
    /\ pr_pc = "call"
    /\ pr_out' = parse_raw(pr_data)
    /\ pr_pc' = "done"
    /\ UNCHANGED pr_data

\* ================================================================== SPECIFICATIONS
vars == <<ds_vars, ff_vars, m_vars, w_vars, tr_vars, pr_vars>>

\* trend_symbol and parse_raw are not being called
FnIdle == TrendIdle /\ ParseIdle

InitAlign ==
    InitDs(MaxLen) /\ IsSorted(values) /\ InitFetch /\ InitMain /\ WindowIdle /\ FnIdle

InitAlignAny == InitDs(MaxLenAny) /\ InitFetch /\ InitMain /\ WindowIdle /\ FnIdle

NextAlign ==
    \/ DsEmpty /\ UNCHANGED <<ff_vars, m_vars, w_vars, tr_vars, pr_vars>>
    \/ DsEnter /\ UNCHANGED <<ff_vars, m_vars, w_vars, tr_vars, pr_vars>>
    \/ DsNextSlot /\ UNCHANGED <<ff_vars, m_vars, w_vars, tr_vars, pr_vars>>
    \/ DsScan /\ UNCHANGED <<ff_vars, m_vars, w_vars, tr_vars, pr_vars>>
    \/ DsEndSlot /\ UNCHANGED <<ff_vars, m_vars, w_vars, tr_vars, pr_vars>>
    \/ DsReturn /\ UNCHANGED <<ff_vars, m_vars, w_vars, tr_vars, pr_vars>>

\* downsample_30min before it is called
DsIdle ==
    /\ values = <<>>
    /\ start_local = WindowStart
    /\ end_local = WindowStart + DayMinutes
    /\ tol = DefaultTolerance
    /\ slots = <<>>
    /\ si = 1
    /\ idx = 0
    /\ best = None
    /\ best_delta = 0
    /\ result = <<>>
    /\ passed = <<>>
    /\ ds_pc = "idle"

InitFetchOnly == InitFetch /\ DsIdle /\ InitMain /\ WindowIdle /\ FnIdle

NextFetch ==
    \/ FfCall /\ UNCHANGED <<ds_vars, m_vars, w_vars, tr_vars, pr_vars>>
    \/ SgOk /\ UNCHANGED <<ds_vars, m_vars, w_vars, tr_vars, pr_vars>>
    \/ SgStatus /\ UNCHANGED <<ds_vars, m_vars, w_vars, tr_vars, pr_vars>>
    \/ SgException /\ UNCHANGED <<ds_vars, m_vars, w_vars, tr_vars, pr_vars>>
    \/ FfBatch /\ UNCHANGED <<ds_vars, m_vars, w_vars, tr_vars, pr_vars>>

SpecFetch == InitFetchOnly /\ [][NextFetch]_vars

\* fetch_feed and safe_get for one feed, with no bound on the number of full
\* pages the server answers with. The thread that runs fetch_feed always
\* takes its next step: a request ends with a response or, at the timeout,
\* with an exception, and a sleep ends.
NextFetchLive ==
    \/ (FfCall /\ ~Beyond)
           /\ UNCHANGED <<ds_vars, m_vars, w_vars, tr_vars, pr_vars>>
    \/ FfCallBeyond /\ UNCHANGED <<ds_vars, m_vars, w_vars, tr_vars, pr_vars>>
    \/ SgOk /\ UNCHANGED <<ds_vars, m_vars, w_vars, tr_vars, pr_vars>>
    \/ SgOkBeyond /\ UNCHANGED <<ds_vars, m_vars, w_vars, tr_vars, pr_vars>>
    \/ SgStatus /\ UNCHANGED <<ds_vars, m_vars, w_vars, tr_vars, pr_vars>>
    \/ SgException /\ UNCHANGED <<ds_vars, m_vars, w_vars, tr_vars, pr_vars>>
    \/ (FfBatch /\ (page < MaxPages \/ ShortPage(batch)))
           /\ UNCHANGED <<ds_vars, m_vars, w_vars, tr_vars, pr_vars>>
    \/ FfBatchBeyond /\ UNCHANGED <<ds_vars, m_vars, w_vars, tr_vars, pr_vars>>

SpecFetchLive ==
    InitFetchOnly /\ [][NextFetchLive]_vars /\ WF_vars(NextFetchLive)

InitMainOnly == InitMain /\ DsIdle /\ InitFetch /\ WindowIdle /\ FnIdle

NextMain ==
    \/ \E f \in Feeds : WorkerStart(f) /\ UNCHANGED <<ds_vars, ff_vars, w_vars, tr_vars, pr_vars>>
    \/ \E f \in Feeds : WorkerFinish(f) /\ UNCHANGED <<ds_vars, ff_vars, w_vars, tr_vars, pr_vars>>
    \/ \E f \in Feeds : MainTake(f) /\ UNCHANGED <<ds_vars, ff_vars, w_vars, tr_vars, pr_vars>>
    \/ MainPlot /\ UNCHANGED <<ds_vars, ff_vars, w_vars, tr_vars, pr_vars>>
    \/ MainSend /\ UNCHANGED <<ds_vars, ff_vars, w_vars, tr_vars, pr_vars>>

SpecMain == InitMainOnly /\ [][NextMain]_vars

\* the worker pool alone, on all of FEEDS: the threads that run fetch_feed(the
\* main thread only reads futures that are done)
InitPool ==
    InitMainOn(1..FeedCount) /\ DsIdle /\ InitFetch /\ WindowIdle /\ FnIdle

NextPool ==
    \/ \E f \in 1..FeedCount : WorkerStart(f) /\ UNCHANGED <<ds_vars, ff_vars, w_vars, tr_vars, pr_vars>>
    \/ \E f \in 1..FeedCount :
           WorkerFinishWith({[kind |-> "data", data |-> <<>>]}, f)
               /\ UNCHANGED <<ds_vars, ff_vars, w_vars, tr_vars, pr_vars>>

SpecPool == InitPool /\ [][NextPool]_vars

\* the reporting window of main
InitPlan == InitWindow /\ DsIdle /\ InitFetch /\ InitMain /\ FnIdle

NextPlan == PlanWindow /\ UNCHANGED <<ds_vars, ff_vars, m_vars, tr_vars, pr_vars>>

SpecWindow == InitPlan /\ [][NextPlan]_vars

\* trend_symbol on its own
InitTrendOnly ==
    InitTrend /\ ParseIdle /\ DsIdle /\ InitFetch /\ InitMain /\ WindowIdle

NextTrend ==
    CallTrend /\ UNCHANGED <<ds_vars, ff_vars, m_vars, w_vars, pr_vars>>

SpecTrend == InitTrendOnly /\ [][NextTrend]_vars

\* parse_raw on its own
InitParseOnly ==
    InitParse /\ TrendIdle /\ DsIdle /\ InitFetch /\ InitMain /\ WindowIdle

NextParse ==
    CallParse /\ UNCHANGED <<ds_vars, ff_vars, m_vars, w_vars, tr_vars>>

SpecParse == InitParseOnly /\ [][NextParse]_vars

SpecAlign == InitAlign /\ [][NextAlign]_vars

SpecAlignAny == InitAlignAny /\ [][NextAlign]_vars

\* ================================================================== CLAIMS
\* the grid of the window: start + k*30min with start <= slot <= end
GridSlots ==
    {start_local + k * Step : k \in 0..((end_local - start_local) \div Step)}

\* distance of sample i to the instant s
Dist(i, s) == Abs(values[i][1] - s)

\* the positions of the output points emitted for the instant s
PointsAt(s) == {j \in DOMAIN result : result[j][1] = s}

\* the samples strictly closer to s than the tolerance
Within(s) == {i \in DOMAIN values : Dist(i, s) < tol}

\* the nearest sample to s, the earliest in the series among equally near ones
Nearest(s) ==
    CHOOSE i \in Within(s) :
        \A j \in Within(s) :
            Dist(i, s) < Dist(j, s) \/ (Dist(i, s) = Dist(j, s) /\ i <= j)

\* C1: a sample exactly `tolerance` away from a slot is emitted for that slot
\* when no closer sample exists, and no sample further away than the
\* tolerance is emitted for a slot.
C1_BoundaryEligible ==
    ds_pc = "done" =>
        /\ \A s \in GridSlots :
               (/\ \E i \in DOMAIN values : Dist(i, s) = tol
                /\ Within(s) = {})
               => \E j \in PointsAt(s) :
                      \E i \in DOMAIN values :
                          Dist(i, s) = tol /\ result[j][2] = values[i][2]
        /\ \A j \in DOMAIN result :
               \E i \in DOMAIN values :
                   values[i][2] = result[j][2] /\ Dist(i, result[j][1]) <= tol

\* C2: on a sorted series with a tolerance of at most 15 minutes, every slot
\* with a sample strictly closer than the tolerance gets exactly one point,
\* stamped with the slot's instant and carrying the value of the nearest
\* sample, the earlier one when two are equally near.
C2_NearestWins ==
    (ds_pc = "done" /\ tol <= 15) =>
        /\ \A s \in GridSlots :
               Within(s) # {} =>
                   /\ Cardinality(PointsAt(s)) = 1
                   /\ \A j \in PointsAt(s) : result[j][2] = values[Nearest(s)][2]
        /\ \A j \in DOMAIN result : result[j][1] \in GridSlots

\* C2 happens: two samples equally near a slot, one before and one after it,
\* and the point of that slot carries the earlier one's value
C2_Witness ==
    /\ ds_pc = "done"
    /\ tol <= 15
    /\ \E s \in GridSlots :
           \E i, k \in Within(s) :
               /\ i < k
               /\ values[i][1] < s
               /\ values[k][1] > s
               /\ Dist(i, s) = Dist(k, s)
               /\ Nearest(s) = i
               /\ \E j \in PointsAt(s) : result[j] = <<s, values[i][2]>>

\* C3: for any series, sorted or not, the output has at most one point per
\* slot, every output instant is a slot of the window, the output instants
\* are strictly increasing, and there are at most floor((end-start)/30min)+1
\* points.
C3_GridCardinality ==
    ds_pc = "done" =>
        /\ \A j \in DOMAIN result : result[j][1] \in GridSlots
        /\ \A s \in GridSlots : Cardinality(PointsAt(s)) <= 1
        /\ \A j \in 1..(Len(result) - 1) : result[j][1] < result[j + 1][1]
        /\ Len(result) <= ((end_local - start_local) \div Step) + 1

\* C3 happens: an unsorted series is aligned on a window of several slots and
\* a point comes out
C3_Witness ==
    /\ ds_pc = "done"
    /\ ~IsSorted(values)
    /\ Cardinality(GridSlots) >= 2
    /\ Len(result) >= 1

\* C4: every emitted value is the value of an input sample within tolerance
\* of the point's slot, a slot with no sample within tolerance has no point,
\* and an empty series gives an empty output.
C4_SparseOmission ==
    ds_pc = "done" =>
        /\ \A j \in DOMAIN result :
               \E i \in DOMAIN values :
                   values[i][2] = result[j][2] /\ Dist(i, result[j][1]) <= tol
        /\ \A s \in GridSlots :
               (\A i \in DOMAIN values : Dist(i, s) > tol) => PointsAt(s) = {}
        /\ values = <<>> => result = <<>>

\* C4 happens: one slot is matched, and a later slot with no sample within
\* tolerance is left out although an earlier sample was matched
C4_Witness ==
    /\ ds_pc = "done"
    /\ result # <<>>
    /\ \E s \in GridSlots :
           /\ \A i \in DOMAIN values : Dist(i, s) > tol
           /\ PointsAt(s) = {}
           /\ \E j \in DOMAIN result : result[j][1] < s

\* the series has exactly one sample on every slot of the window, in order
OnGrid ==
    /\ Len(values) = Len(SlotsFrom(start_local, end_local))
    /\ \A i \in DOMAIN values : values[i][1] = start_local + (i - 1) * Step

\* C5: aligning a series that has exactly one sample on every slot returns
\* the same series, for the tolerances 15, 10 and 30.
C5_Idempotent ==
    (ds_pc = "done" /\ OnGrid /\ tol \in {15, 10, 30}) => result = values

\* ------------------------------------------------------------------ fetch
\* the pages 1..n laid end to end, page k holding ls[k] records
RECURSIVE PagesInOrder(_, _)
PagesInOrder(ls, n) ==
    IF n = 0 THEN <<>> ELSE PagesInOrder(ls, n - 1) \o Body(n, ls[n])

\* an HTTP attempt that failed in a way safe_get retries
Transient(status) ==
    status = NoResponse \/ status \in {429, 500, 502, 503, 504}

\* C6: fetch_feed requests pages 1, 2, 3, ... in increasing order with limit
\* 1000, requests no page after the first one shorter than 1000 (an empty one
\* included), and returns the received pages laid end to end in request
\* order; pages of 1000, 1000 and 437 records make 3 requests and 2437 records.
C6_Pagination ==
    /\ \A k \in DOMAIN calls : calls[k] = [page |-> k, limit |-> 1000]
    /\ \A k \in DOMAIN lens : k < Len(calls) => lens[k] = 1000
    /\ ff_pc = "done" =>
           /\ Len(lens) = Len(calls)
           /\ out = PagesInOrder(lens, Len(lens))
    /\ (ff_pc = "done" /\ lens = <<1000, 1000, 437>>) =>
           Len(calls) = 3 /\ Len(out) = 2437

\* C6 happens: the server answers 1000, 1000 and 437 records
C6_Witness ==
    /\ ff_pc = "done"
    /\ lens = <<1000, 1000, 437>>
    /\ Len(calls) = 3
    /\ Len(out) = 2437
    /\ out[1] = <<1, 1>>
    /\ out[2437] = <<3, 437>>

\* C7: one page request makes at most 4 HTTP attempts; attempt k+1 follows
\* failed attempt k (from 0) only after a sleep of backoff^k seconds; the
\* first 200 ends the request and its body is returned, so 503 then 200 is
\* two attempts, one sleep and the 200 body.
C7_RetryBackoff ==
    /\ Len(attempts) <= 4
    /\ \A k \in DOMAIN attempts :
           k < Len(attempts) =>
               /\ Transient(attempts[k])
               /\ k \in DOMAIN sleeps
    /\ Len(sleeps) <= 4
    /\ 1 \in DOMAIN sleeps => sleeps[1] = 1000
    /\ 2 \in DOMAIN sleeps => sleeps[2] = 1500
    /\ 3 \in DOMAIN sleeps => sleeps[3] = 2250
    /\ 4 \in DOMAIN sleeps => sleeps[4] = 3375
    /\ (attempts # <<>> /\ Last(attempts) = 200) =>
           /\ ff_pc # "get"
           /\ Len(sleeps) = Len(attempts) - 1
           /\ batch = Body(Last(calls).page, Last(lens))
    /\ attempts = <<503, 200>> =>
           /\ Len(sleeps) = 1
           /\ Len(batch) = Last(lens)

\* C7 happens: 503 once, then 200 with a body
C7_Witness ==
    /\ attempts = <<503, 200>>
    /\ sleeps = <<1000>>
    /\ ff_pc = "batch"
    /\ Len(batch) = 437

\* all the attempts of the current page request failed transiently
Exhausted ==
    /\ Len(attempts) = 4
    /\ \A k \in DOMAIN attempts : Transient(attempts[k])

\* C8: when all 4 attempts for page k fail with retryable statuses or
\* transport exceptions, fetch_feed stops paging and returns exactly the
\* records of pages 1..k-1 in order (none when k = 1), without raising.
C8_ExhaustedReturnsPartial ==
    Exhausted =>
        /\ ff_pc \in {"batch", "done"}
        /\ batch = <<>>
        /\ Len(calls) = page
        /\ ff_pc = "done" =>
               out = PagesInOrder([k \in 1..(page - 1) |-> 1000], page - 1)

\* C8 happens: page 2 fails four times after a full page 1
C8_Witness ==
    /\ Exhausted
    /\ ff_pc = "done"
    /\ page = 2
    /\ Len(out) = 1000
    /\ \E k \in DOMAIN attempts : attempts[k] = NoResponse
    /\ \E k \in DOMAIN attempts : attempts[k] = 503

\* C9: on a status other than 200, 429, 500, 502, 503 and 504, safe_get
\* returns an empty page at once, with no further attempt and no sleep, and
\* fetch_feed stops paging and returns the pages accumulated before it.
C9_NonRetryableStops ==
    (attempts # <<>> /\ Last(attempts) \in OtherStatuses) =>
        /\ ff_pc \in {"batch", "done"}
        /\ batch = <<>>
        /\ Len(sleeps) = Len(attempts) - 1
        /\ Len(calls) = page
        /\ ff_pc = "done" =>
               out = PagesInOrder([k \in 1..(page - 1) |-> 1000], page - 1)

\* C9 happens: page 2 is answered 404 at its first attempt after a full page 1
C9_Witness ==
    /\ attempts = <<404>>
    /\ sleeps = <<>>
    /\ ff_pc = "done"
    /\ page = 2
    /\ Len(out) = 1000

\* ------------------------------------------------------------------ main
\* the lines of the posted text that belong to feed f
LinesOf(f) == {k \in DOMAIN sent : sent[k].feed = f}

\* C10: after any run of main, whatever the outcome of fetch, parse,
\* alignment, statistics, rendering and photo delivery, the final summary
\* holds exactly one line for every feed, never none and never two.
C10_OneLinePerFeed ==
    m_pc = "end" => \A f \in Feeds : Cardinality(LinesOf(f)) = 1

\* the line the loop body appends for feed f before make_plot, from what
\* the feed's own fetch gave
OwnLine(f) ==
    IF fetched[f].kind = "raise"
    THEN Line(f, "error")
    ELSE IF Valores(fetched[f].data) = <<>>
         THEN Line(f, "nodata")
         ELSE Line(f, IF IsRele(f) THEN "onoff" ELSE "stats")

\* the lines of feed f in the posted text, in order
RECURSIVE LinesIn(_, _)
LinesIn(txt, f) ==
    IF txt = <<>>
    THEN <<>>
    ELSE LET before == LinesIn(SubSeq(txt, 1, Len(txt) - 1), f)
         IN IF Last(txt).feed = f THEN Append(before, Last(txt)) ELSE before

\* C11: an exception in one feed's fetch, parse, alignment, statistics or
\* rendering is caught in the loop body and recorded as that feed's error
\* line; every feed's lines are what its own fetch and rendering give,
\* whatever happened to the other feeds; and the summary is posted exactly
\* once, after every feed has been processed.
C11_ChannelIsolation ==
    /\ posts <= 1
    /\ posts = 1 =>
           /\ m_pc = "end"
           /\ handled = Feeds
           /\ cur = 0
           /\ sent = summary
    /\ m_pc = "end" =>
           /\ posts = 1
           /\ \A f \in Feeds :
                  /\ (fetched[f].kind = "raise" \/ rendered[f] = "raise")
                         => Line(f, "error") = Last(LinesIn(sent, f))
                  /\ LinesIn(sent, f) =
                         IF rendered[f] = "raise"
                         THEN <<OwnLine(f), Line(f, "error")>>
                         ELSE <<OwnLine(f)>>

\* C11 happens: one feed's fetch raised, another feed's rendering raised, and
\* a third feed has its statistics line in the posted summary
C11_Witness ==
    /\ m_pc = "end"
    /\ posts = 1
    /\ \E f, g, h \in Feeds :
           /\ fetched[f].kind = "raise"
           /\ rendered[g] = "raise"
           /\ h # f /\ h # g
           /\ LinesIn(sent, h) = <<Line(h, "stats")>>
           /\ rendered[h] = "sent"

\* ------------------------------------------------------------------ pool
\* how many times a worker has begun the fetch task of feed f
TimesStarted(f) == Cardinality({k \in DOMAIN started : started[k] = f})

Done == {f \in DOMAIN task : task[f] = "done"}

\* C12: at every moment at most 5 fetch tasks are executing, each feed is
\* fetched by exactly one task, and a task that waits for a free worker
\* starts only after a running task has finished.
C12_BoundedPool ==
    /\ Cardinality(Running) <= 5
    /\ \A f \in DOMAIN task :
           /\ TimesStarted(f) <= 1
           /\ task[f] \in {"running", "done"} <=> TimesStarted(f) = 1
    /\ \A k \in DOMAIN started :
           k > 5 => Cardinality(Done) >= k - 5
    /\ Len(started) > 5 => Done # {}

\* C12 happens: five tasks run, a sixth has started after one of the first
\* five finished, and others still wait
C12_Witness ==
    /\ Cardinality(Running) = 5
    /\ Len(started) = 6
    /\ Cardinality(Done) = 1
    /\ \E f \in DOMAIN task : task[f] = "queued"

\* ------------------------------------------------------------------ window
\* C13: for every now, the window is a fully elapsed day anchored at 08:00:
\* end is at 08:00:00.000, end - start is exactly one day, end <= now, and
\* now - end is less than one day.
C13_ElapsedDay ==
    w_pc = "planned" =>
        /\ win_end.hour = 8 /\ win_end.minute = 0
        /\ win_end.second = 0 /\ win_end.microsecond = 0
        /\ win_start.hour = 8 /\ win_start.minute = 0
        /\ win_start.second = 0 /\ win_start.microsecond = 0
        /\ Seconds(win_end) - Seconds(win_start) = 86400
        /\ NotEarlier(now_local, win_end)
        /\ Seconds(now_local) - Seconds(win_end) < 86400

\* C13 happens: main runs one microsecond before 08:00 and reports the day that
\* ended at 08:00 the day before
C13_Witness ==
    /\ w_pc = "planned"
    /\ now_local = DateTime(4, 7, 59, 59, 999999)
    /\ win_end = DateTime(3, 8, 0, 0, 0)
    /\ win_start = DateTime(2, 8, 0, 0, 0)

\* ------------------------------------------------------------------ tolerance
\* C14: a tolerance above half the 30-minute cadence is rejected or clamped
\* to at most 15 minutes: the slots are never scanned with a tolerance beyond
\* 15 minutes.
C14_ToleranceClamped ==
    ds_pc = "while" => (tol <= Step \div 2 /\ best_delta <= Step \div 2)

\* ------------------------------------------------------------------ trend
\* C15: trend_symbol returns NEUTRAL when an argument is absent or when
\* |last - first| < threshold, and otherwise POSITIVE when last > first and
\* NEGATIVE when last < first; a difference equal to the threshold is not
\* NEUTRAL; 10.00 -> 10.05 with threshold 0.1 is NEUTRAL, 10.00 -> 10.11 is
\* POSITIVE.
C15_Trend ==
    tr_pc = "done" =>
        LET absent == ~tr_first.some \/ ~tr_last.some
            d == tr_last.v - tr_first.v
        IN /\ (absent \/ Abs(d) < tr_threshold) <=> tr_out = "NEUTRAL"
           /\ (~absent /\ Abs(d) >= tr_threshold /\ d > 0) => tr_out = "POSITIVE"
           /\ (~absent /\ Abs(d) >= tr_threshold /\ d < 0) => tr_out = "NEGATIVE"
           /\ (~absent /\ Abs(d) = tr_threshold /\ d # 0) => tr_out # "NEUTRAL"
           /\ (tr_first = Some(1000) /\ tr_last = Some(1005) /\ tr_threshold = 10)
                  => tr_out = "NEUTRAL"
           /\ (tr_first = Some(1000) /\ tr_last = Some(1011) /\ tr_threshold = 10)
                  => tr_out = "POSITIVE"

\* C15 happens: the difference is exactly the threshold, downwards
C15_Witness ==
    /\ tr_pc = "done"
    /\ tr_first = Some(1000)
    /\ tr_last = Some(990)
    /\ tr_threshold = 10
    /\ tr_out = "NEGATIVE"

\* ------------------------------------------------------------------ parse
\* how many times x occurs in the sequence sq
Count(sq, x) == Cardinality({k \in DOMAIN sq : sq[k] = x})

\* the well-formed records of the data, as samples, in the order of the data
RECURSIVE GoodSamples(_)
GoodSamples(data) ==
    IF data = <<>>
    THEN <<>>
    ELSE LET before == GoodSamples(SubSeq(data, 1, Len(data) - 1))
             d == Last(data)
         IN IF d.value.ok /\ d.created_at.ok
            THEN Append(before, <<d.created_at.is, d.value.is>>)
            ELSE before

\* C16: parse_raw drops exactly the records whose value or timestamp is
\* malformed and keeps every other record, wherever the malformed ones
\* stand, and its output is sorted non-decreasing by instant.
C16_ParseDropsAndSorts ==
    pr_pc = "done" =>
        /\ Len(pr_out) = Len(GoodSamples(pr_data))
        /\ \A k \in DOMAIN pr_out :
               Count(pr_out, pr_out[k]) = Count(GoodSamples(pr_data), pr_out[k])
        /\ IsSorted(pr_out)

\* C16 happens: a malformed record stands between two good records that
\* arrive latest first, and both come out in time order
C16_Witness ==
    /\ pr_pc = "done"
    /\ Len(pr_data) = 3
    /\ pr_data[1].created_at = Text(WindowStart + Step)
    /\ pr_data[1].value.ok
    /\ ~pr_data[2].value.ok
    /\ pr_data[3].created_at = Text(WindowStart)
    /\ pr_data[3].value.ok
    /\ Len(pr_out) = 2
    /\ pr_out[1][1] = WindowStart
    /\ pr_out[2][1] = WindowStart + Step

\* ------------------------------------------------------------------ pointer
\* the samples the pointer went past while slot k was processed
PassedBy(k) == (passed[k][1] + 1)..passed[k][2]

\* C17: the pointer is never rewound, and a slot advances it only past
\* samples of no use to a later slot: a sample at or after the next slot
\* minus the tolerance is left for that next slot.
C17_PointerKeepsUseful ==
    /\ \A k \in DOMAIN passed :
           /\ passed[k][1] <= passed[k][2]
           /\ k > 1 => passed[k - 1][2] <= passed[k][1]
    /\ \A k \in DOMAIN passed :
           k < Len(slots) =>
               \A j \in PassedBy(k) : values[j][1] < slots[k + 1] - tol

\* the output points whose value comes from sample j (the values of a series
\* are all different)
SuppliedBy(j) == {k \in DOMAIN result : result[k][2] = values[j][2]}

\* C19: for every sorted series and every tolerance, each sample supplies the
\* value of at most one output point: a sample the pointer has passed while
\* an earlier slot was processed is never the match of a later slot.
C19_MatchedOnce ==
    /\ \A j \in DOMAIN values : Cardinality(SuppliedBy(j)) <= 1
    /\ (ds_pc = "while" /\ best # None) =>
           \A j \in DOMAIN values :
               best[2] = values[j][2] => j > passed[si][1]

\* C19 happens: with tolerance 30 one sample lies within reach of two slots
\* and comes out once
C19_Witness ==
    /\ ds_pc = "done"
    /\ tol = 30
    /\ Len(slots) >= 2
    /\ Len(values) = 1
    /\ values[1][1] = WindowStart + 15
    /\ result = <<<<WindowStart, values[1][2]>>>>

\* ------------------------------------------------------------------ termination
\* C18: every fetch of a channel terminates whatever the server answers,
\* also when the server answers every page with a full page of 1000 records.
C18_FetchTerminates == <>(ff_pc = "done")

\* ------------------------------------------------------------------ threads
\* the feeds of the lines a step appends to the summary
AppendedFeeds ==
    {summary'[k].feed : k \in (Len(summary) + 1)..Len(summary')}

\* the step runs the post-processing of feed f, and of f only: f was yielded
\* by as_completed after its fetch ended, and nothing of another feed is
\* written
PostProcesses(f) ==
    /\ task[f] = "done"
    /\ f \in handled'
    /\ AppendedFeeds \subseteq {f}
    /\ \A g \in DOMAIN rendered : g # f => rendered'[g] = rendered[g]
    /\ (photos' # photos) => photos' = Append(photos, f)

====
